---- MODULE Spec2Model ----
(***************************************************************************)
(* fastaudio spectrogram augmentations (src/fastaudio/augment/             *)
(* spectrogram.py): CropTime, MaskFreq, MaskTime, SGRoll, Delta and        *)
(* TfmResize applied to one AudioSpectrogram, a (channel, frequency, time) *)
(* tensor carrying the attributes sr and hop_length.                       *)
(*                                                                         *)
(* A tensor is a sequence of channels, a channel a sequence of frequency   *)
(* rows, a row a sequence of values over time.  A value is an exact        *)
(* rational <<n, d>> in lowest terms (d > 0): the means, the bilinear      *)
(* weights and the delta filters of the code are computed exactly; float   *)
(* rounding is not modelled.  Every random draw of the code is an input    *)
(* of the action that makes it.                                            *)
(***************************************************************************)
EXTENDS Integers, Sequences, FiniteSets, TLC

VARIABLES
    sg,          \* the data of the AudioSpectrogram handed to the transforms
    meta,        \* sample_start / sample_end as CropTime sets them
    sr,          \* sg.sr
    hop_length,  \* sg.hop_length
    err,         \* the exception the last call raised, "none" when it returned
    last,        \* the last call: transform, configuration, random draws
    pre,         \* the data of sg when the last call began
    steps,       \* number of calls made on this spectrogram
    budget,      \* length of the pipeline this spectrogram goes through
    hist         \* initial shape, Delta applications, last TfmResize target

vars == <<sg, meta, sr, hop_length, err, last, pre, steps, budget, hist>>

-----------------------------------------------------------------------------
(* Bounds of the model *)

MaxSteps == 2      \* longest pipeline
MaxC == 2          \* channels of an input
MaxY == 2          \* frequency bins of an input
MaxX == 5          \* time frames of an input
MaxMasks == 2      \* num_masks
MaxSize == 3       \* mask size
MaxStart == 2      \* largest fixed start
RGrid == 4         \* random.random() is drawn from {0, 1/RGrid, ..., (RGrid-1)/RGrid}
MaxTarget == 3     \* largest TfmResize target extent
MaxPad == 3        \* most frames the pad helper is asked to add

-----------------------------------------------------------------------------
(* Exact rationals *)

RECURSIVE GCD(_, _)
GCD(a, b) == IF b = 0 THEN a ELSE GCD(b, a % b)

Abs(n) == IF n < 0 THEN -n ELSE n

\* n / d in lowest terms with a positive denominator (d # 0)
RNorm(n, d) ==
    LET g == GCD(Abs(n), Abs(d))
        s == IF d < 0 THEN -1 ELSE 1
    IN  <<(s * n) \div g, (s * d) \div g>>

RInt(n) == <<n, 1>>
RAdd(a, b) ==
    IF a[2] = 1 /\ b[2] = 1 THEN <<a[1] + b[1], 1>>
    ELSE RNorm(a[1] * b[2] + b[1] * a[2], a[2] * b[2])
RSub(a, b) == RAdd(a, <<-b[1], b[2]>>)
RMul(a, b) ==
    IF a[2] = 1 /\ b[2] = 1 THEN <<a[1] * b[1], 1>>
    ELSE RNorm(a[1] * b[1], a[2] * b[2])
RDivInt(a, k) == RNorm(a[1], a[2] * k)

\* Python's int() of the rational n / d (d > 0): truncation toward zero
PyInt(n, d) == IF n >= 0 THEN n \div d ELSE -((-n) \div d)

RECURSIVE RSumSeq(_)
RSumSeq(s) == IF s = <<>> THEN RInt(0) ELSE RAdd(s[1], RSumSeq(Tail(s)))

-----------------------------------------------------------------------------
(* Tensors *)

\* The sequence f[1], ..., f[n] with its elements computed once
Mat(f) == <<>> \o f

NumCh(t) == Len(t)
NumFreq(t) == Len(t[1])
NumTime(t) == Len(t[1][1])
Shape(t) == <<NumCh(t), NumFreq(t), NumTime(t)>>

\* torch.einsum("...ij->...ji", t): the last two axes swapped
einsum_ji(t) ==
    Mat([c \in 1..NumCh(t) |->
        Mat([i \in 1..NumTime(t) |->
            Mat([j \in 1..NumFreq(t) |->
                t[c][j][i]])])])

\* sg.contiguous().view(sg.size(0), -1).mean(-1)[:, None, None]
channel_mean(t) ==
    Mat([c \in 1..NumCh(t) |->
            RDivInt(RSumSeq([f \in 1..NumFreq(t) |-> RSumSeq(t[c][f])]),
                    NumFreq(t) * NumTime(t))])

\* Option values: None is <<>>, a value v is <<v>>
None == <<>>
Some(v) == <<v>>
ifnone(a, b) == IF a = None THEN b ELSE a[1]

\* random.randint(a, b) raises ValueError (empty range) when b < a,
\* and returns a member of a..b otherwise
randint_raises(a, b) == b < a
randint_range(a, b) == a..b

-----------------------------------------------------------------------------
(* MaskFreq *)

\* (mutant) the band taken one row too long
mask_rows_inclusive(t, start, size, mask_val) ==
    Mat([c \in 1..NumCh(t) |->
        Mat([f \in 1..NumFreq(t) |->
            Mat([x \in 1..NumTime(t) |->
                IF start <= f - 1 /\ f - 1 <= start + size
                      THEN mask_val[c] ELSE t[c][f][x]])])])

\* sg[:, start : start + size, :] = mask, mask being mask_val broadcast per channel
mask_rows(t, start, size, mask_val) ==
    Mat([c \in 1..NumCh(t) |->
        Mat([f \in 1..NumFreq(t) |->
            Mat([x \in 1..NumTime(t) |->
                IF start <= f - 1 /\ f - 1 < start + size
                      THEN mask_val[c] ELSE t[c][f][x]])])])

\* The loop of MaskFreq.encodes from mask number i on; draws[i + 1] is the
\* random.randint that ends iteration i.
RECURSIVE MaskFreq_loop(_, _, _, _, _, _, _)
MaskFreq_loop(t, i, num_masks, size, start, mask_val, draws) ==
    IF i > num_masks THEN [data |-> t, err |-> "none"]
    ELSE IF ~(0 <= start /\ start <= NumFreq(t) - size)
         THEN [data |-> t, err |-> "ValueError: start out of range"]
         ELSE MaskFreq_loop(mask_rows(t, start, size, mask_val), i + 1,
                            num_masks, size, draws[i + 1], mask_val, draws)

\* MaskFreq(num_masks, size, start, val).encodes(t).  draws[1] is the
\* random.randint of line 64, evaluated whether or not start is given.
MaskFreq_encodes(t, num_masks, size, start, val, draws) ==
    LET mask_val == IF val = None THEN channel_mean(t)
                    ELSE Mat([c \in 1..NumCh(t) |-> val[1]])
    IN  IF randint_raises(0, NumFreq(t) - size)
        THEN [data |-> t, err |-> "ValueError: empty range for randrange"]
        ELSE MaskFreq_loop(t, 1, num_masks, size, ifnone(start, draws[1]),
                           mask_val, draws)

\* The draws a MaskFreq call on y bins can make: num_masks + 1 of them.  The
\* draw of line 64 is discarded by ifnone when start is given, and the draw
\* that ends the last iteration is never read: either is enumerated as 0 only.
MaskDraws(y, num_masks, size, start) ==
    IF randint_raises(0, y - size) THEN {<<>>}
    ELSE {d \in [1..(num_masks + 1) -> randint_range(0, y - size)] :
             /\ d[num_masks + 1] = 0
             /\ start # None => d[1] = 0}

-----------------------------------------------------------------------------
(* MaskTime *)

\* (mutant) the result of MaskFreq is not transposed back
MaskTime_not_transposed_back(t, num_masks, size, start, val, draws) ==
    MaskFreq_encodes(einsum_ji(t), num_masks, size, start, val, draws)

\* MaskTime(num_masks, size, start, val).encodes(t): sg.data is the transposed
\* tensor from line 84 on, and is transposed back only when MaskFreq returns.
MaskTime_encodes(t, num_masks, size, start, val, draws) ==
    LET r == MaskFreq_encodes(einsum_ji(t), num_masks, size, start, val, draws)
    IN  IF r.err # "none" THEN [data |-> r.data, err |-> r.err]
        ELSE [data |-> einsum_ji(r.data), err |-> "none"]

-----------------------------------------------------------------------------
(* SGRoll *)

\* SGRoll.__init__: the check of direction (a rational)
SGRoll_init(max_shift_pct, direction) ==
    IF PyInt(direction[1], direction[2]) \notin {-1, 0, 1}
    THEN "ValueError: direction"
    ELSE "none"

\* line 101: random.choice([-1, 1]) if self.direction == 0 else self.direction
resolve_direction(direction, choice) ==
    IF direction = RInt(0) THEN RInt(choice) ELSE direction

\* (mutant) the product rounded toward minus infinity
roll_amount_floor(w, r, max_shift_pct, direction) ==
    LET p == RMul(RMul(RMul(RInt(w), r), max_shift_pct), direction)
    IN  p[1] \div p[2]

\* line 103: int(w * random.random() * self.max_shift_pct * direction)
roll_amount(w, r, max_shift_pct, direction) ==
    LET p == RMul(RMul(RMul(RInt(w), r), max_shift_pct), direction)
    IN  PyInt(p[1], p[2])

\* torch.roll(t, roll_by, dims=-1)
roll(t, roll_by) ==
    LET w == NumTime(t)
    IN  Mat([c \in 1..NumCh(t) |->
            Mat([f \in 1..NumFreq(t) |->
                Mat([x \in 1..w |->
                    t[c][f][((x - 1 - roll_by) % w) + 1]])])])

SGRoll_encodes(t, max_shift_pct, direction, choice, r) ==
    roll(t, roll_amount(NumTime(t), r, max_shift_pct,
                        resolve_direction(direction, choice)))

-----------------------------------------------------------------------------
(* Delta *)

RECURSIVE SumInts(_, _, _)
\* sum of F[k] for k in lo..hi
SumInts(F, lo, hi) == IF lo > hi THEN 0 ELSE F[lo] + SumInts(F, lo + 1, hi)

RECURSIVE RSumFn(_, _, _)
RSumFn(F, lo, hi) ==
    IF lo > hi THEN RInt(0) ELSE RAdd(F[lo], RSumFn(F, lo + 1, hi))

\* librosa.feature.delta(plane, order=order, width=width) along the last axis:
\* scipy's savgol_filter with polyorder = deriv = order and mode "interp".
\* Over a window of half-width n centred on column m the order-1 value is the
\* least-squares slope, the order-2 value twice the least-squares quadratic
\* coefficient; at the n columns of either edge the polynomial fitted to the
\* outermost window is differentiated, which gives that window's value.
librosa_delta(plane, order, width) ==
    LET n  == (width - 1) \div 2
        x  == Len(plane[1])
        S2 == SumInts([k \in -n..n |-> k * k], -n, n)
        w2 == Mat([i \in 1..width |-> width * (i - n - 1) * (i - n - 1) - S2])
        D2 == SumInts([i \in 1..width |-> w2[i] * w2[i]], 1, width)
        centre(m) == IF m < n + 1 THEN n + 1 ELSE IF m > x - n THEN x - n ELSE m
        d1(row, m) ==
            RDivInt(RSumFn([k \in -n..n |-> RMul(RInt(k), row[m + k])], -n, n), S2)
        d2(row, m) ==
            RDivInt(RMul(RInt(2 * width),
                         RSumFn([k \in -n..n |-> RMul(RInt(w2[k + n + 1]), row[m + k])],
                                -n, n)),
                    D2)
        \* the value of every window that fits: column m of inner[f] is centred on m + n
        inner == Mat([f \in 1..Len(plane) |->
                        Mat([m \in 1..(x - 2 * n) |->
                                IF order = 1 THEN d1(plane[f], m + n)
                                ELSE d2(plane[f], m + n)])])
    IN  Mat([f \in 1..Len(plane) |->
                Mat([m \in 1..x |-> inner[f][centre(m) - n]])])

\* (mutant) the width check made on the frequency axis
_torchdelta_freq_axis(plane, order, width) ==
    IF Len(plane) < width
    THEN [data |-> <<>>, err |-> "ValueError: delta width"]
    ELSE [data |-> librosa_delta(plane, order, width), err |-> "none"]

\* _torchdelta(plane, order, width): plane is one channel, so shape[1] is its
\* number of time frames
_torchdelta(plane, order, width) ==
    IF Len(plane[1]) < width
    THEN [data |-> <<>>, err |-> "ValueError: delta width"]
    ELSE [data |-> librosa_delta(plane, order, width), err |-> "none"]

\* Delta(width).encodes(t): torch.cat of torch.stack([c, td(c, 1), td(c, 2)])
Delta_encodes(t, width) ==
    LET new_channels ==
            Mat([c \in 1..NumCh(t) |->
                    <<[data |-> t[c], err |-> "none"],
                      _torchdelta(t[c], 1, width),
                      _torchdelta(t[c], 2, width)>>])
    IN  IF \E c \in 1..NumCh(t) : \E o \in 1..3 : new_channels[c][o].err # "none"
        THEN [data |-> t, err |-> "ValueError: delta width"]
        ELSE [data |-> Mat([i \in 1..(3 * NumCh(t)) |->
                               new_channels[((i - 1) \div 3) + 1][((i - 1) % 3) + 1].data]),
              err |-> "none"]

-----------------------------------------------------------------------------
(* CropTime *)

\* str.lower() on the pad modes the model passes
lower(s) ==
    CASE s = "Zeros" -> "zeros"
      [] s = "Repeat" -> "repeat"
      [] OTHER -> s

\* (mutant) 'repeat' tiles width // x times, one repetition short
_tfm_pad_spectro_short(t, width, pad_mode, start) ==
    LET x == NumTime(t)
        pad_m == lower(pad_mode)
    IN  IF pad_m \in {"zeros", "zeros_after"}
        THEN LET s == IF pad_m = "zeros" THEN start ELSE 0
             IN  [data |-> Mat([c \in 1..NumCh(t) |->
                               Mat([f \in 1..NumFreq(t) |->
                                   Mat([i \in 1..width |->
                                       IF s <= i - 1 /\ i - 1 < s + x
                                             THEN t[c][f][i - s]
                                             ELSE RInt(0)])])]),
                  err |-> "none"]
        ELSE IF pad_m = "repeat"
        THEN LET tiled_width == (width \div x) * x
             IN  [data |-> Mat([c \in 1..NumCh(t) |->
                               Mat([f \in 1..NumFreq(t) |->
                                   Mat([i \in 1..(IF tiled_width < width THEN tiled_width ELSE width) |->
                                       t[c][f][((i - 1) % x) + 1]])])]),
                  err |-> "none"]
        ELSE [data |-> t, err |-> "ValueError: pad_mode"]

\* _tfm_pad_spectro(t, width, pad_mode); start is the random.randint(0, width - x)
\* of the "zeros" mode
_tfm_pad_spectro(t, width, pad_mode, start) ==
    LET x == NumTime(t)
        pad_m == lower(pad_mode)
    IN  IF pad_m \in {"zeros", "zeros_after"}
        THEN LET s == IF pad_m = "zeros" THEN start ELSE 0
             IN  [data |-> Mat([c \in 1..NumCh(t) |->
                               Mat([f \in 1..NumFreq(t) |->
                                   Mat([i \in 1..width |->
                                       IF s <= i - 1 /\ i - 1 < s + x
                                             THEN t[c][f][i - s]
                                             ELSE RInt(0)])])]),
                  err |-> "none"]
        ELSE IF pad_m = "repeat"
        THEN LET repeats == (width \div x) + 1
                 tiled == Mat([c \in 1..NumCh(t) |->
                              Mat([f \in 1..NumFreq(t) |->
                                  Mat([i \in 1..(repeats * x) |->
                                      t[c][f][((i - 1) % x) + 1]])])])
             IN  [data |-> Mat([c \in 1..NumCh(t) |->
                                  Mat([f \in 1..NumFreq(t) |->
                                          SubSeq(tiled[c][f], 1, width)])]),
                  err |-> "none"]
        ELSE [data |-> t, err |-> "ValueError: pad_mode"]

\* line 20: int((sr * self.duration) / (1000 * hop)) + 1
crop_width(sr_, hop, duration) == PyInt(sr_ * duration, 1000 * hop) + 1

\* line 30: int(self.duration * sr)
duration_samples(duration, sr_) == duration * sr_

NoMeta == [set |-> FALSE, sample_start |-> 0, sample_end |-> 0]

\* CropTime(duration, pad_mode).encodes(t); rnd is the one random.randint the
\* branch taken makes (the crop start, or the start of the "zeros" padding)
CropTime_encodes(t, m, sr_, hop, duration, pad_mode, rnd) ==
    LET w_crop == crop_width(sr_, hop, duration)
        w_sg == NumTime(t)
    IN  IF w_sg = w_crop THEN [data |-> t, err |-> "none", meta |-> m]
        ELSE IF w_sg < w_crop
        THEN LET r == _tfm_pad_spectro(t, w_crop, pad_mode, rnd)
             IN  [data |-> r.data, err |-> r.err, meta |-> m]
        ELSE LET crop_start == rnd
                 sample_start == crop_start * hop
             IN  [data |-> Mat([c \in 1..NumCh(t) |->
                                  Mat([f \in 1..NumFreq(t) |->
                                          SubSeq(t[c][f], crop_start + 1,
                                                 crop_start + w_crop)])]),
                  err |-> "none",
                  meta |-> [set |-> TRUE, sample_start |-> sample_start,
                            sample_end |-> sample_start + duration_samples(duration, sr_)]]

\* the values the random.randint of a CropTime call can return
CropDraws(t, sr_, hop, duration, pad_mode) ==
    LET w_crop == crop_width(sr_, hop, duration)
        w_sg == NumTime(t)
    IN  IF w_sg > w_crop THEN randint_range(0, w_sg - w_crop)
        ELSE IF w_sg < w_crop /\ lower(pad_mode) = "zeros"
        THEN randint_range(0, w_crop - w_sg)
        ELSE {0}

-----------------------------------------------------------------------------
(* TfmResize *)

\* One axis of F.interpolate(mode="bilinear", align_corners=False): output
\* index i (from 0) of O reads the input of extent I at
\* src = max(0, (i + 1/2) * I / O - 1/2), between floor(src) and the next index.
interp_src(i, I, O) ==
    LET num == I * (2 * i + 1) - O
    IN  IF num < 0 THEN RInt(0) ELSE RNorm(num, 2 * O)

interp_axis(row, O) ==
    LET I == Len(row)
    IN  Mat([k \in 1..O |->
                LET src == interp_src(k - 1, I, O)
                    i0 == src[1] \div src[2]
                    i1 == IF i0 < I - 1 THEN i0 + 1 ELSE i0
                    l1 == RSub(src, RInt(i0))
                    l0 == RSub(RInt(1), l1)
                IN  RAdd(RMul(l0, row[i0 + 1]), RMul(l1, row[i1 + 1]))])

\* F.interpolate(t.unsqueeze(0), size=(h, w), mode="bilinear",
\*               align_corners=False).squeeze(0)
interpolate(t, h, w) ==
    LET wide == Mat([c \in 1..NumCh(t) |->
                        Mat([f \in 1..NumFreq(t) |-> interp_axis(t[c][f], w)])])
        tall == Mat([c \in 1..NumCh(t) |->
                        Mat([x \in 1..w |->
                                interp_axis(Mat([f \in 1..NumFreq(t) |-> wide[c][f][x]]),
                                            h)])])
    IN  Mat([c \in 1..NumCh(t) |->
            Mat([f \in 1..h |->
                Mat([x \in 1..w |->
                    tall[c][x][f]])])])

\* (mutant) a (height, width) pair read as (width, height)
TfmResize_swapped(t, size) ==
    IF Len(size) = 1 THEN interpolate(t, size[1], size[1])
    ELSE interpolate(t, size[2], size[1])

\* TfmResize(size).encodes(t); size is <<s>> for an int, <<h, w>> for a pair
TfmResize_encodes(t, size) ==
    IF Len(size) = 1 THEN interpolate(t, size[1], size[1])
    ELSE interpolate(t, size[1], size[2])

-----------------------------------------------------------------------------
(* The spectrogram and its pipeline *)

\* The input of shape (c, y, x): every cell holds a different value
Input(c, y, x) ==
    Mat([ch \in 1..c |->
        Mat([f \in 1..y |->
            Mat([t \in 1..x |->
                RInt(100 * ch + 10 * f + t * t)])])])

\* (sr, hop_length) of the inputs, and the durations (ms) CropTime is built with
Attrs == {<<16000, 160>>}
Durations == {5, 10, 25, 30, 45}
PadModes == {"zeros", "Zeros", "zeros_after", "repeat", "reflect"}
DeltaWidths == {3, 5}

\* A pipeline of one call draws its configuration from the full sets, a longer
\* pipeline from the subsets below.
Single == budget = 1

NumMasksSet == IF Single THEN 1..MaxMasks ELSE {1}
Sizes == IF Single THEN 1..MaxSize ELSE {1}
Starts == IF Single THEN {None} \cup {Some(k) : k \in -1..MaxStart} ELSE {Some(0), Some(MaxStart)}
Vals == IF Single THEN {None, Some(RInt(0))} ELSE {None}
Directions == IF Single THEN {RNorm(k, 2) : k \in -4..4} ELSE {RInt(-1), RNorm(1, 2)}
ShiftPcts == IF Single THEN {RInt(0), RNorm(1, 2), RInt(1), RInt(2)} ELSE {RNorm(1, 2)}
Randoms == IF Single THEN {RNorm(k, RGrid) : k \in 0..(RGrid - 1)} ELSE {RNorm(RGrid - 1, RGrid)}
PipelineDurations == IF Single THEN Durations ELSE {25}
PipelinePadModes == IF Single THEN PadModes ELSE {"zeros_after", "repeat", "reflect"}
ResizeSizes ==
    IF Single
    THEN {<<s>> : s \in 1..MaxTarget} \cup {<<h, w>> : h \in 1..MaxTarget, w \in 1..MaxTarget}
    ELSE {<<MaxTarget>>, <<1, MaxTarget>>}

Init ==
    /\ budget \in {1, MaxSteps}
    /\ \E c \in 1..MaxC, y \in 1..MaxY, x \in 1..MaxX :
          /\ sg = Input(c, y, x)
          /\ hist = [c0 |-> c, y0 |-> y, nDelta |-> 0, resize |-> None]
    /\ \E a \in Attrs : sr = a[1] /\ hop_length = a[2]
    /\ meta = NoMeta
    /\ err = "none"
    /\ last = [op |-> "none"]
    /\ pre = sg
    /\ steps = 0

\* A transform is called on a spectrogram no earlier call has failed on
CanCall == err = "none" /\ steps < budget

Called == /\ pre' = sg
          /\ steps' = steps + 1
          /\ UNCHANGED <<sr, hop_length, budget>>

CropTime(duration, pad_mode, rnd) ==
    /\ CanCall
    /\ LET r == CropTime_encodes(sg, meta, sr, hop_length, duration, pad_mode, rnd)
       IN  /\ sg' = r.data
           /\ err' = r.err
           /\ meta' = r.meta
    /\ last' = [op |-> "CropTime", duration |-> duration, pad_mode |-> pad_mode,
                rnd |-> rnd]
    /\ Called
    /\ UNCHANGED hist

MaskFreq(num_masks, size, start, val, draws) ==
    /\ CanCall
    /\ LET r == MaskFreq_encodes(sg, num_masks, size, start, val, draws)
       IN  /\ sg' = r.data
           /\ err' = r.err
    /\ last' = [op |-> "MaskFreq", num_masks |-> num_masks, size |-> size,
                start |-> start, val |-> val, draws |-> draws]
    /\ Called
    /\ UNCHANGED <<meta, hist>>

MaskTime(num_masks, size, start, val, draws) ==
    /\ CanCall
    /\ LET r == MaskTime_encodes(sg, num_masks, size, start, val, draws)
       IN  /\ sg' = r.data
           /\ err' = r.err
    /\ last' = [op |-> "MaskTime", num_masks |-> num_masks, size |-> size,
                start |-> start, val |-> val, draws |-> draws]
    /\ Called
    /\ UNCHANGED <<meta, hist>>

\* SGRoll(max_shift_pct, direction) is built and, when built, called
SGRoll(max_shift_pct, direction, choice, r) ==
    /\ CanCall
    /\ err' = SGRoll_init(max_shift_pct, direction)
    /\ sg' = IF err' = "none"
             THEN SGRoll_encodes(sg, max_shift_pct, direction, choice, r)
             ELSE sg
    /\ last' = [op |-> "SGRoll", max_shift_pct |-> max_shift_pct,
                direction |-> direction, choice |-> choice, r |-> r]
    /\ Called
    /\ UNCHANGED <<meta, hist>>

Delta(width) ==
    /\ CanCall
    /\ LET r == Delta_encodes(sg, width)
       IN  /\ sg' = r.data
           /\ err' = r.err
           /\ hist' = IF r.err = "none"
                      THEN [hist EXCEPT !.nDelta = @ + 1] ELSE hist
    /\ last' = [op |-> "Delta", width |-> width]
    /\ Called
    /\ UNCHANGED meta

TfmResize(size) ==
    /\ CanCall
    /\ sg' = TfmResize_encodes(sg, size)
    /\ err' = "none"
    /\ hist' = [hist EXCEPT !.resize = Some(size[1])]
    /\ last' = [op |-> "TfmResize", size |-> size]
    /\ Called
    /\ UNCHANGED meta

Next ==
    \/ /\ CanCall
       /\ \E d \in PipelineDurations, m \in PipelinePadModes :
             \E rnd \in CropDraws(sg, sr, hop_length, d, m) : CropTime(d, m, rnd)
    \/ /\ CanCall
       /\ \E n \in NumMasksSet, s \in Sizes, st \in Starts, v \in Vals :
             \E draws \in MaskDraws(NumFreq(sg), n, s, st) : MaskFreq(n, s, st, v, draws)
    \/ /\ CanCall
       /\ \E n \in NumMasksSet, s \in Sizes, st \in Starts, v \in Vals :
             \E draws \in MaskDraws(NumTime(sg), n, s, st) : MaskTime(n, s, st, v, draws)
    \/ /\ CanCall
       /\ \E p \in ShiftPcts, d \in Directions, r \in Randoms :
             \E choice \in (IF d = RInt(0) THEN {-1, 1} ELSE {0}) :
                SGRoll(p, d, choice, r)
    \/ \E w \in DeltaWidths : Delta(w)
    \/ \E size \in ResizeSizes : TfmResize(size)

Spec == Init /\ [][Next]_vars

-----------------------------------------------------------------------------
(* Claims *)

Supported == {"zeros", "zeros_after", "repeat"}

\* floor of the rational q
Floor(q) == q[1] \div q[2]

\* the configured duration in samples: sample_rate * duration_ms / 1000
DurationInSamples(duration) == (sr * duration) \div 1000

\* C1: on CropTime's crop branch (w_sg > w_crop) the metadata is
\* sample_start = crop_start * hop_length with crop_start in [0, w_sg - w_crop]
\* and sample_end = sample_start + sample_rate * duration_ms / 1000.
C1_CropMetadata ==
    (last.op = "CropTime" /\ err = "none" /\ NumTime(pre) > NumTime(sg)) =>
        /\ meta.set
        /\ \E crop_start \in 0..(NumTime(pre) - NumTime(sg)) :
              meta.sample_start = crop_start * hop_length
        /\ meta.sample_end = meta.sample_start + DurationInSamples(last.duration)

\* C2: whenever a call of a transform fails, the spectrogram passed in has
\* exactly the data and the axis layout it had before the call.
C2_FailureLeavesInputIntact == err # "none" => sg = pre

\* C3: a MaskFreq call whose size exceeds the number of frequency bins, or
\* whose fixed start lies outside [0, num_freq_bins - size], fails with the
\* start-validation error, before any row is overwritten.
C3_MaskFreqRangeError ==
    (/\ last.op = "MaskFreq"
     /\ \/ last.size > NumFreq(pre)
        \/ /\ last.start # None
           /\ ~(0 <= last.start[1] /\ last.start[1] <= NumFreq(pre) - last.size)) =>
        /\ err = "ValueError: start out of range"
        /\ sg = pre

\* C4: SGRoll is built exactly when direction is one of -1, 0, 1, and the
\* direction that multiplies the shift of a call is then -1 or 1.
C4_SGRollDirection ==
    last.op = "SGRoll" =>
        /\ err = "none" <=> last.direction \in {RInt(-1), RInt(0), RInt(1)}
        /\ err = "none" =>
              resolve_direction(last.direction, last.choice) \in {RInt(-1), RInt(1)}

\* C5: with a pad mode among 'zeros', 'zeros_after', 'repeat' CropTime returns
\* a spectrogram of exactly w_crop = floor(sr * duration / (1000 * hop)) + 1
\* time frames, channels and frequency bins unchanged; and the pad helper
\* returns exactly the width it is asked for, for every width >= the current one.
C5_CropWidth ==
    /\ (last.op = "CropTime" /\ lower(last.pad_mode) \in Supported) =>
          /\ err = "none"
          /\ NumCh(sg) = NumCh(pre)
          /\ NumFreq(sg) = NumFreq(pre)
          /\ \A c \in 1..NumCh(sg) : \A f \in 1..NumFreq(sg) :
                LET w == Len(sg[c][f])
                IN  /\ (w - 1) * 1000 * hop_length <= sr * last.duration
                    /\ sr * last.duration < w * 1000 * hop_length
    /\ steps = 0 =>
          \A width \in NumTime(sg)..(NumTime(sg) + MaxPad) : \A m \in Supported :
             \A start \in 0..(width - NumTime(sg)) :
                LET r == _tfm_pad_spectro(sg, width, m, start)
                IN  /\ r.err = "none"
                    /\ NumCh(r.data) = NumCh(sg)
                    /\ NumFreq(r.data) = NumFreq(sg)
                    /\ \A c \in 1..NumCh(sg) : \A f \in 1..NumFreq(sg) :
                          Len(r.data[c][f]) = width

\* a CropTime call that padded in 'repeat' mode to a width that is no multiple
W5_RepeatPadded ==
    /\ last.op = "CropTime" /\ err = "none"
    /\ last.pad_mode = "repeat"
    /\ NumTime(pre) < NumTime(sg)
    /\ NumTime(sg) % NumTime(pre) # 0

RECURSIVE Pow3(_)
Pow3(n) == IF n = 0 THEN 1 ELSE 3 * Pow3(n - 1)

\* C6: after any sequence of successful calls the channel count is the initial
\* one times 3 to the number of Delta calls, the frequency-bin count is the
\* initial one or the height of the last TfmResize, and MaskFreq, MaskTime,
\* SGRoll and Delta leave the time-frame count as it was.
C6_ShapeInvariants ==
    err = "none" =>
        /\ NumCh(sg) = hist.c0 * Pow3(hist.nDelta)
        /\ \A c \in 1..NumCh(sg) :
              /\ Len(sg[c]) = IF hist.resize = None THEN hist.y0 ELSE hist.resize[1]
              /\ last.op \in {"MaskFreq", "MaskTime", "SGRoll", "Delta"} =>
                    \A f \in 1..Len(sg[c]) : Len(sg[c][f]) = NumTime(pre)

\* two successful calls, a TfmResize to a height other than the input's and a Delta
W6_ResizedAndDelta ==
    /\ err = "none" /\ steps = 2
    /\ hist.nDelta = 1
    /\ hist.resize # None /\ hist.resize[1] # hist.y0

\* the fill value of the last mask call, per channel: the configured val, or
\* the mean of that channel of the input over all its positions
FillValue ==
    Mat([c \in 1..NumCh(pre) |->
            IF last.val # None THEN last.val[1]
            ELSE RDivInt(RSumSeq([f \in 1..NumFreq(pre) |-> RSumSeq(pre[c][f])]),
                         NumFreq(pre) * NumTime(pre))])

\* C7: MaskFreq with num_masks = 1, size = s and a valid fixed start = k fills
\* rows [k, k + s) of every channel, over all time frames, with the fill value
\* (val, or the mean of that channel of the input) and leaves every other row.
C7_MaskFreqBand ==
    (/\ last.op = "MaskFreq" /\ last.num_masks = 1 /\ last.start # None
     /\ 0 <= last.start[1] /\ last.start[1] <= NumFreq(pre) - last.size) =>
        LET fill == FillValue
        IN  /\ err = "none"
            /\ Shape(sg) = Shape(pre)
            /\ \A c \in 1..NumCh(pre) : \A f \in 1..NumFreq(pre) :
                  \A t \in 1..NumTime(pre) :
                     sg[c][f][t] =
                        IF last.start[1] <= f - 1 /\ f - 1 < last.start[1] + last.size
                        THEN fill[c] ELSE pre[c][f][t]

\* a one-mask MaskFreq call with a fixed start and the default fill that left
\* row 0 alone
W7_BandMasked ==
    /\ last.op = "MaskFreq" /\ err = "none"
    /\ last.num_masks = 1 /\ last.start = Some(1) /\ last.size = 1 /\ last.val = None
    /\ NumFreq(pre) = 2
    /\ sg # pre

\* C8: MaskTime returns what MaskFreq with the same configuration and draws
\* returns on the transposed input, transposed back, or fails as it does; on
\* success the shape is the input's and the masked bands are the columns
\* [start, start + size) over all frequency bins.
C8_MaskTimeIsTransposedMaskFreq ==
    last.op = "MaskTime" =>
        LET T == Mat([c \in 1..NumCh(pre) |->
                     Mat([t \in 1..NumTime(pre) |->
                         Mat([f \in 1..NumFreq(pre) |->
                             pre[c][f][t]])])])
            r == MaskFreq_encodes(T, last.num_masks, last.size, last.start,
                                  last.val, last.draws)
            begin(i) == IF i = 1 THEN ifnone(last.start, last.draws[1])
                        ELSE last.draws[i]
            masked(t) == \E i \in 1..last.num_masks :
                            begin(i) <= t - 1 /\ t - 1 < begin(i) + last.size
            fill == FillValue
        IN  /\ err = r.err
            /\ err = "none" =>
                  /\ Shape(sg) = Shape(pre)
                  /\ \A c \in 1..NumCh(pre) : \A f \in 1..NumFreq(pre) :
                        \A t \in 1..NumTime(pre) :
                           /\ sg[c][f][t] = r.data[c][t][f]
                           /\ sg[c][f][t] = IF masked(t) THEN fill[c] ELSE pre[c][f][t]

\* a MaskTime call of two masks at drawn starts on a spectrogram that is not square
W8_TwoTimeMasks ==
    /\ last.op = "MaskTime" /\ err = "none"
    /\ last.num_masks = 2 /\ last.start = None
    /\ last.draws[1] # last.draws[2]
    /\ NumFreq(pre) # NumTime(pre)

\* C9: Delta fails exactly when the input has fewer time frames than the
\* window width; otherwise planes 3i, 3i+1, 3i+2 of the output are channel i,
\* its order-1 delta and its order-2 delta, frequency and time extents unchanged.
C9_DeltaStacks ==
    last.op = "Delta" =>
        /\ err # "none" <=> NumTime(pre) < last.width
        /\ err # "none" => err = "ValueError: delta width"
        /\ err = "none" =>
              /\ Shape(sg) = <<3 * NumCh(pre), NumFreq(pre), NumTime(pre)>>
              /\ sg[1] = pre[1]
              /\ \A i \in 1..NumCh(pre) :
                    /\ sg[3 * (i - 1) + 1] = pre[i]
                    /\ sg[3 * (i - 1) + 2] = librosa_delta(pre[i], 1, last.width)
                    /\ sg[3 * (i - 1) + 3] = librosa_delta(pre[i], 2, last.width)

\* a Delta call on two channels that returned
W9_DeltaOfTwoChannels ==
    /\ last.op = "Delta" /\ err = "none"
    /\ NumCh(pre) = 2
    /\ sg[5] # sg[2]

\* the shift of the last SGRoll call, by rounding rule
RollProduct ==
    RMul(RMul(RMul(RInt(NumTime(pre)), last.r), last.max_shift_pct),
         resolve_direction(last.direction, last.choice))

RolledBy(shift) ==
    /\ Shape(sg) = Shape(pre)
    /\ \A c \in 1..NumCh(pre) : \A f \in 1..NumFreq(pre) : \A t \in 1..NumTime(pre) :
          sg[c][f][t] = pre[c][f][((t - 1 - shift) % NumTime(pre)) + 1]

SGRollCalled ==
    /\ last.op = "SGRoll" /\ err = "none"
    /\ resolve_direction(last.direction, last.choice) \in {RInt(-1), RInt(1)}

\* C10 as stated: SGRoll shifts circularly by floor(w * r * p * d) frames,
\* rounding toward minus infinity also when the product is negative.
C10_RollByFloor == SGRollCalled => RolledBy(Floor(RollProduct))

\* C10 as amended: SGRoll shifts circularly by w * r * p * d truncated toward
\* zero; with max_shift_pct = 0 and with a shift of the full width the output
\* is the input.
C10_RollByTruncation ==
    SGRollCalled =>
        LET q == RollProduct
            shift == IF q[1] >= 0 THEN Floor(q) ELSE -Floor(<<-q[1], q[2]>>)
        IN  /\ RolledBy(shift)
            /\ last.max_shift_pct = RInt(0) => sg = pre
            /\ (shift = NumTime(pre) \/ shift = -NumTime(pre)) => sg = pre

\* a left roll by a negative amount that is no whole number of frames
W10_LeftFractionalRoll ==
    /\ SGRollCalled
    /\ resolve_direction(last.direction, last.choice) = RInt(-1)
    /\ RollProduct[2] # 1
    /\ NumTime(pre) >= 3
    /\ sg # pre

====
